---- MODULE Spec2Model ----
(***************************************************************************)
(* State-machine model of the blog application in src/main.py and the     *)
(* form validation of src/form.py.                                         *)
(*                                                                         *)
(* The state is the three relational tables (users, blog_post, comments), *)
(* the signed-cookie login session of each browser, the register request  *)
(* that is between its email lookup and its commit (threaded server), and *)
(* the response given to the last request.                                 *)
(***************************************************************************)
EXTENDS Integers, Sequences, FiniteSets, TLC

\* ---------------------------------------------------------------- bounds
MaxPostId == 2
MaxComments == 1

\* ------------------------------------------------------- request inputs
Clients == {"b1", "b2"}
Blank == {"", " "}
Emails == {"a@x.com", "b@x.com"}
Passwords == {"p", "q"}
Names == {"A"}
Salts == {"s1"}
Titles == {"T", "U"}
Subtitles == {"sub"}
Bodies == {"body"}
CommentTexts == {"nice"}
Url == [scheme |-> "http", host |-> "x", tld |-> "io"]
NoTldUrl == [scheme |-> "http", host |-> "x", tld |-> ""]
NoUrl == [scheme |-> "", host |-> "", tld |-> ""]
ImgUrls == {Url, NoTldUrl, NoUrl}
Days == {[year |-> 2026, month |-> 11, day |-> 3]}
PostIds == 1 .. MaxPostId

\* the browser whose requests are served one at a time
Browsers == {"b1"}

\* submissions: the valid ones, a POST that fails validation, and a plain GET
RegisterRequests ==
    [method : {"POST"}, email : Emails, password : {"p"}, name : Names]
    \cup {[method |-> "GET", email |-> "", password |-> "", name |-> ""],
          [method |-> "POST", email |-> " ", password |-> "p", name |-> "A"]}

LoginRequests ==
    [method : {"POST"}, email : Emails, password : Passwords]
    \cup {[method |-> "GET", email |-> "", password |-> ""],
          [method |-> "POST", email |-> "a@x.com", password |-> ""]}

CommentRequests ==
    [method : {"POST"}, comment : CommentTexts]
    \cup {[method |-> "GET", comment |-> ""],
          [method |-> "POST", comment |-> " "]}

PostRequests ==
    [method : {"POST"}, title : Titles, subtitle : Subtitles,
     img_url : {Url}, body : Bodies]
    \cup {[method |-> "GET", title |-> "", subtitle |-> "", img_url |-> NoUrl,
           body |-> ""],
          [method |-> "POST", title |-> "T", subtitle |-> "sub",
           img_url |-> NoTldUrl, body |-> "body"]}

\* ------------------------------------------------------------ the state
VARIABLES users, posts, comments, session, pending, resp

vars == <<users, posts, comments, session, pending, resp>>

\* current_user of a browser without a login session (AnonymousUserMixin)
Anonymous == 0
\* a nullable foreign key column holding NULL
NULL == 0
\* no register request of the browser is between lookup and commit
Idle == [email |-> "", password |-> "", name |-> ""]

\* --------------------------------------------------------- form.py
\* wtforms DataRequired: the data is non-empty after strip()
DataRequired(s) == s \notin Blank

\* wtforms URL: scheme://host with a top-level domain
URL(u) == u.scheme # "" /\ u.host # "" /\ u.tld # ""

\* FlaskForm.validate_on_submit: a submitting method and every validator
PostForm(method, title, subtitle, img_url, body) ==
    /\ method = "POST"
    /\ DataRequired(title)
    /\ DataRequired(subtitle)
    /\ img_url # NoUrl /\ URL(img_url)
    /\ DataRequired(body)

RegisterForm(method, email, password, name) ==
    /\ method = "POST"
    /\ DataRequired(email)
    /\ DataRequired(password)
    /\ DataRequired(name)

LoginForm(method, email, password) ==
    /\ method = "POST"
    /\ DataRequired(email)
    /\ DataRequired(password)

CommentForm(method, comment) ==
    /\ method = "POST"
    /\ DataRequired(comment)

\* --------------------------------------------------------- responses
render_template(op) ==
    [op |-> op, status |-> 200, location |-> "", flash |-> ""]

redirect(op, target, message) ==
    [op |-> op, status |-> 302, location |-> target, flash |-> message]

abort(op, code) ==
    [op |-> op, status |-> code, location |-> "", flash |-> ""]

\* --------------------------------------------------------- helpers
Max(S) == CHOOSE m \in S : \A x \in S : x <= m

\* date.today().strftime("%B %d, %Y")
MonthName == <<"January", "February", "March", "April", "May", "June", "July",
               "August", "September", "October", "November", "December">>

strftime(d) ==
    [B |-> MonthName[d.month], d |-> <<d.day \div 10, d.day % 10>>, Y |-> d.year]

\* werkzeug generate_password_hash(password, 'pbkdf2:sha256', salt_length=8)
pbkdf2(salt, password) == <<"sha256", salt, password>>

generate_password_hash(password, salt) ==
    [method |-> "pbkdf2:sha256", salt |-> salt, digest |-> pbkdf2(salt, password)]

\* a comparison that accepts every password
check_password_hash_any(pwhash, password) == TRUE

\* werkzeug check_password_hash(pwhash, password)
check_password_hash(pwhash, password) ==
    pbkdf2(pwhash.salt, password) = pwhash.digest

\* db.select(User).where(User.email == email) ... .scalar(): the id or none
find_user_by_email(email) ==
    IF \E i \in DOMAIN users : users[i].email = email
    THEN CHOOSE i \in DOMAIN users : users[i].email = email
    ELSE Anonymous

\* flask_login current_user
current_user(c) == session[c]

\* an authentication test that also passes for the anonymous user
is_authenticated_always(c) == TRUE

is_authenticated(c) == current_user(c) # Anonymous

\* a login that leaves the session as it was
login_user_skipped(c, id) == session

\* flask_login login_user / logout_user: the browser's session afterwards
login_user(c, id) == [session EXCEPT ![c] = id]

logout_user(c) == [session EXCEPT ![c] = Anonymous]

\* the guard of the admin_only wrapper: TRUE when the wrapped view runs
admin_only(c) == is_authenticated(c) /\ current_user(c) = 1

\* the guard of flask_login's login_required
login_required(c) == is_authenticated(c)

\* unique=True on users.email: the INSERT raises IntegrityError
EmailConflict(email) == \E i \in DOMAIN users : users[i].email = email

\* a title column declared without unique=True
TitleConflict_none(id, title) == FALSE

\* unique=True on blog_post.title: INSERT/UPDATE of row id raises IntegrityError
TitleConflict(id, title) ==
    \E i \in DOMAIN posts : i # id /\ posts[i].title = title

\* INTEGER PRIMARY KEY of the default sqlite store: largest rowid plus one
next_post_id == IF DOMAIN posts = {} THEN 1 ELSE Max(DOMAIN posts) + 1

\* --------------------------------------------------------- rows
User(email, password, name, salt) ==
    [email |-> email, password |-> generate_password_hash(password, salt),
     name |-> name]

BlogPost(author_id, title, subtitle, day, img_url, body) ==
    [author_id |-> author_id, title |-> title, subtitle |-> subtitle,
     date |-> strftime(day), body |-> body, img_url |-> img_url]

Comment(commenter_id, post_id, text) ==
    [commenter_id |-> commenter_id, post_id |-> post_id, text |-> text]

\* an edit that keeps the original author
edited_keep_author(post, author_id, title, subtitle, img_url, body) ==
    [post EXCEPT !.title = title, !.subtitle = subtitle,
                 !.img_url = img_url, !.body = body]

\* the record written by the assignments of edit_post
edited(post, author_id, title, subtitle, img_url, body) ==
    [post EXCEPT !.title = title, !.subtitle = subtitle,
                 !.author_id = author_id, !.img_url = img_url, !.body = body]

\* a delete that empties the table
deleted_all(post_id) == <<>>

\* db.session.delete(post): the blog_post table without that row
deleted(post_id) == [i \in DOMAIN posts \ {post_id} |-> posts[i]]

\* db.session.delete(post) with the default (no cascade) one-to-many
\* relationship BlogPost.comments: the ORM sets the children's post_id to NULL
orphaned(post_id) ==
    [i \in DOMAIN comments |->
        IF comments[i].post_id = post_id
        THEN [comments[i] EXCEPT !.post_id = NULL]
        ELSE comments[i]]

\* --------------------------------------------------------- initial state
Init ==
    /\ users = <<>>
    /\ posts = <<>>
    /\ comments = <<>>
    /\ session = [c \in Clients |-> Anonymous]
    /\ pending = [c \in Clients |-> Idle]
    /\ resp = render_template("get_all_posts")

\* --------------------------------------------------------- /register
\* a register that does not look the email up
register_lookup_unchecked(method, email, password, name) ==
    IF ~RegisterForm(method, email, password, name) THEN "render"
    ELSE "proceed"

\* lines 82-88: "render", "duplicate" or "proceed" to the INSERT
register_lookup(method, email, password, name) ==
    IF ~RegisterForm(method, email, password, name) THEN "render"
    ELSE IF find_user_by_email(email) # Anonymous THEN "duplicate"
    ELSE "proceed"

\* lines 89-97: INSERT, commit, login_user, redirect
register_commit(c, email, password, name, salt) ==
    IF EmailConflict(email)
    THEN /\ resp' = abort("register", 500)
         /\ UNCHANGED <<users, session>>
    ELSE /\ users' = Append(users, User(email, password, name, salt))
         /\ session' = login_user(c, Len(users) + 1)
         /\ resp' = redirect("register", "get_all_posts", "")

\* lines 83-88: the two early returns of register
register_return(outcome) ==
    /\ resp' = IF outcome = "render" THEN render_template("register")
               ELSE redirect("register", "login",
                             "Email already registered, please login.")
    /\ UNCHANGED <<users, session>>

\* the whole handler, served without interleaving
register(c, method, email, password, name, salt) ==
    /\ pending[c] = Idle
    /\ IF register_lookup(method, email, password, name) = "proceed"
       THEN register_commit(c, email, password, name, salt)
       ELSE register_return(register_lookup(method, email, password, name))
    /\ UNCHANGED <<posts, comments, pending>>

\* the handler up to its SELECT; another request may run before its INSERT
register_select(c, method, email, password, name) ==
    /\ pending[c] = Idle
    /\ IF register_lookup(method, email, password, name) = "proceed"
       THEN /\ pending' = [pending EXCEPT ![c] =
                              [email |-> email, password |-> password, name |-> name]]
            /\ UNCHANGED <<users, session, resp>>
       ELSE /\ register_return(register_lookup(method, email, password, name))
            /\ UNCHANGED pending
    /\ UNCHANGED <<posts, comments>>

\* the rest of the handler, from its INSERT
register_insert(c, salt) ==
    /\ pending[c] # Idle
    /\ register_commit(c, pending[c].email, pending[c].password,
                       pending[c].name, salt)
    /\ pending' = [pending EXCEPT ![c] = Idle]
    /\ UNCHANGED <<posts, comments>>

\* --------------------------------------------------------- /login
login(c, method, email, password) ==
    /\ pending[c] = Idle
    /\ IF ~LoginForm(method, email, password)
       THEN /\ resp' = render_template("login")
            /\ UNCHANGED session
       ELSE IF /\ find_user_by_email(email) # Anonymous
               /\ check_password_hash(users[find_user_by_email(email)].password,
                                      password)
       THEN /\ session' = login_user(c, find_user_by_email(email))
            /\ resp' = redirect("login", "get_all_posts", "")
       ELSE /\ resp' = redirect("login", "login",
                          IF find_user_by_email(email) = Anonymous
                          THEN "Email does not exist, please try again."
                          ELSE "Password mismatch, please try again.")
            /\ UNCHANGED session
    /\ UNCHANGED <<users, posts, comments, pending>>

\* --------------------------------------------------------- /logout
logout(c) ==
    /\ pending[c] = Idle
    /\ session' = logout_user(c)
    /\ resp' = redirect("logout", "get_all_posts", "")
    /\ UNCHANGED <<users, posts, comments, pending>>

\* --------------------------------------------------------- /
get_all_posts(c) ==
    /\ resp' = render_template("get_all_posts")
    /\ UNCHANGED <<users, posts, comments, session, pending>>

\* --------------------------------------------------------- /<post_id>
show_post(c, method, post_id, comment) ==
    /\ IF post_id \notin DOMAIN posts
       THEN /\ resp' = abort("show_post", 404)
            /\ UNCHANGED comments
       ELSE IF ~CommentForm(method, comment)
       THEN /\ resp' = render_template("show_post")
            /\ UNCHANGED comments
       ELSE IF ~is_authenticated(c)
       THEN /\ resp' = redirect("show_post", "login",
                                "You need to login or register to comment.")
            /\ UNCHANGED comments
       ELSE /\ Len(comments) < MaxComments
            /\ comments' = Append(comments,
                                  Comment(current_user(c), post_id, comment))
            /\ resp' = redirect("show_post", "get_all_posts", "")
    /\ UNCHANGED <<users, posts, session, pending>>

\* --------------------------------------------------------- /new-post
add_post(c, method, title, subtitle, img_url, body, today) ==
    /\ IF ~login_required(c)
       THEN /\ resp' = abort("add_post", 401)
            /\ UNCHANGED posts
       ELSE IF ~PostForm(method, title, subtitle, img_url, body)
       THEN /\ resp' = render_template("add_post")
            /\ UNCHANGED posts
       ELSE IF TitleConflict(next_post_id, title)
       THEN /\ resp' = abort("add_post", 500)
            /\ UNCHANGED posts
       ELSE /\ next_post_id <= MaxPostId
            /\ posts' = (next_post_id :>
                           BlogPost(current_user(c), title, subtitle, today,
                                    img_url, body)) @@ posts
            /\ resp' = redirect("add_post", "get_all_posts", "")
    /\ UNCHANGED <<users, comments, session, pending>>

\* --------------------------------------------------------- /edit-post/<post_id>
edit_post(c, method, post_id, title, subtitle, img_url, body) ==
    /\ IF ~admin_only(c)
       THEN /\ resp' = abort("edit_post", 403)
            /\ UNCHANGED posts
       ELSE IF post_id \notin DOMAIN posts
       THEN /\ resp' = abort("edit_post", 404)
            /\ UNCHANGED posts
       ELSE IF ~PostForm(method, title, subtitle, img_url, body)
       THEN /\ resp' = render_template("edit_post")
            /\ UNCHANGED posts
       ELSE IF TitleConflict(post_id, title)
       THEN /\ resp' = abort("edit_post", 500)
            /\ UNCHANGED posts
       ELSE /\ posts' = [posts EXCEPT ![post_id] =
                           edited(posts[post_id], current_user(c), title,
                                  subtitle, img_url, body)]
            /\ resp' = redirect("edit_post", "show_post", "")
    /\ UNCHANGED <<users, comments, session, pending>>

\* --------------------------------------------------------- /delete/<post_id>
delete_post(c, post_id) ==
    /\ IF ~admin_only(c)
       THEN /\ resp' = abort("delete_post", 403)
            /\ UNCHANGED <<posts, comments>>
       ELSE IF post_id \notin DOMAIN posts
       THEN /\ resp' = abort("delete_post", 404)
            /\ UNCHANGED <<posts, comments>>
       ELSE /\ posts' = deleted(post_id)
            /\ comments' = orphaned(post_id)
            /\ resp' = redirect("delete_post", "get_all_posts", "")
    /\ UNCHANGED <<users, session, pending>>

\* --------------------------------------------------------- specifications
\* requests served one at a time
Next ==
    \E c \in Browsers :
        \/ \E r \in RegisterRequests, s \in Salts :
              register(c, r.method, r.email, r.password, r.name, s)
        \/ \E r \in LoginRequests : login(c, r.method, r.email, r.password)
        \/ logout(c)
        \/ get_all_posts(c)
        \/ \E r \in CommentRequests, id \in PostIds :
              show_post(c, r.method, id, r.comment)
        \/ \E r \in PostRequests, d \in Days :
              add_post(c, r.method, r.title, r.subtitle, r.img_url, r.body, d)
        \/ \E r \in PostRequests, id \in PostIds :
              edit_post(c, r.method, id, r.title, r.subtitle, r.img_url, r.body)
        \/ \E id \in PostIds : delete_post(c, id)

Spec == Init /\ [][Next]_vars

\* register requests of two browsers interleaved between SELECT and INSERT
NextRace ==
    \E c \in Clients :
        \/ \E r \in RegisterRequests :
              register_select(c, r.method, r.email, r.password, r.name)
        \/ \E s \in Salts : register_insert(c, s)
        \/ \E r \in LoginRequests : login(c, r.method, r.email, r.password)
        \/ logout(c)

SpecRace == Init /\ [][NextRace]_vars

\* ===================================================================
\* Properties
\* ===================================================================
EmailKnown(email) == \E i \in DOMAIN users : users[i].email = email

\* the password the stored hash of user i was generated from
PasswordOf(i, password) ==
    users[i].password = generate_password_hash(password, users[i].password.salt)

Refused == posts' = posts /\ resp'.status = 403

\* C1: a caller whose session identity is not the user with id 1 gets a
\* forbidden response from create-post, edit-post and delete-post, and the
\* post table is left as it was.
C1_AdminGate ==
    [][\A c \in Clients :
         session[c] # 1 =>
           /\ \A r \in PostRequests, d \in Days :
                add_post(c, r.method, r.title, r.subtitle, r.img_url, r.body, d)
                  => Refused
           /\ \A r \in PostRequests, id \in PostIds :
                edit_post(c, r.method, id, r.title, r.subtitle, r.img_url, r.body)
                  => Refused
           /\ \A id \in PostIds : delete_post(c, id) => Refused]_vars

\* C2: a valid register submission with the email of an existing User leaves
\* the user table and the session unchanged and redirects to login.
C2_DuplicateEmail ==
    [][resp'.op = "register" =>
         \A r \in RegisterRequests :
           (RegisterForm(r.method, r.email, r.password, r.name) /\ EmailKnown(r.email))
           => \A c \in Clients, s \in Salts :
                register(c, r.method, r.email, r.password, r.name, s)
                => /\ users' = users
                   /\ session' = session
                   /\ resp'.status = 302
                   /\ resp'.location = "login"]_vars

C2_Witness ==
    /\ resp.op = "register"
    /\ resp.status = 302
    /\ resp.location = "login"
    /\ users # <<>>

RegisterCreates ==
    \A r \in RegisterRequests :
      (RegisterForm(r.method, r.email, r.password, r.name) /\ ~EmailKnown(r.email))
      => \A c \in Clients, s \in Salts :
           register(c, r.method, r.email, r.password, r.name, s)
           => /\ Len(users') = Len(users) + 1
              /\ users'[Len(users')].email = r.email
              /\ session'[c] = Len(users')
              /\ resp'.status = 302
              /\ resp'.location = "get_all_posts"

LoginAccepts ==
    \A r \in LoginRequests, i \in DOMAIN users :
      ( /\ LoginForm(r.method, r.email, r.password)
        /\ users[i].email = r.email
        /\ PasswordOf(i, r.password) )
      => \A c \in Clients :
           login(c, r.method, r.email, r.password)
           => /\ session'[c] = i
              /\ resp'.status = 302
              /\ resp'.location = "get_all_posts"

\* C3: after a register with a new email or a login with a matching
\* password, the session identity is the User created or looked up, whatever
\* it was before, and the response redirects to the post listing.
C3_SessionMatchesUser ==
    [][/\ resp'.op = "register" => RegisterCreates
       /\ resp'.op = "login" => LoginAccepts]_vars

C3_Witness ==
    /\ resp.op = "login"
    /\ resp.location = "get_all_posts"
    /\ session["b1"] = 2
    /\ Len(users) = 2

\* a login with the email of user i and a password that is not that user's
LoginRejected(c, r, i) ==
    /\ LoginForm(r.method, r.email, r.password)
    /\ users[i].email = r.email
    /\ ~PasswordOf(i, r.password)
    /\ login(c, r.method, r.email, r.password)

MismatchAnswer ==
    /\ users' = users /\ posts' = posts /\ comments' = comments
    /\ resp'.status = 302
    /\ resp'.location = "login"
    /\ resp'.flash = "Password mismatch, please try again."

UnknownEmailAnswer ==
    \A c \in Clients, r \in LoginRequests :
        ( /\ LoginForm(r.method, r.email, r.password)
          /\ ~EmailKnown(r.email)
          /\ login(c, r.method, r.email, r.password) )
        => /\ resp'.flash = "Email does not exist, please try again."
           /\ resp'.location = "login"

\* C4 as stated: after a login with an existing email and a wrong password
\* the caller has no session identity, no record is changed and the response
\* redirects to login with the password-mismatch message.
C4_NoSessionAfterMismatch ==
    [][resp'.op = "login" =>
         /\ \A c \in Clients, r \in LoginRequests, i \in DOMAIN users :
              LoginRejected(c, r, i)
              => session'[c] = Anonymous /\ MismatchAnswer
         /\ UnknownEmailAnswer]_vars

\* C4 as amended: a login with an existing email and a wrong password leaves
\* the session identity of the caller as it was (none stays none), changes no
\* record and redirects to login with the password-mismatch message, which
\* differs from the message for an unknown email.
C4_SessionUnchangedAfterMismatch ==
    [][resp'.op = "login" =>
         /\ \A c \in Clients, r \in LoginRequests, i \in DOMAIN users :
              LoginRejected(c, r, i)
              => session' = session /\ MismatchAnswer
         /\ UnknownEmailAnswer]_vars

C4_Witness ==
    /\ resp.op = "login"
    /\ resp.flash = "Password mismatch, please try again."
    /\ session["b1"] # Anonymous

AnonymousComment ==
    \A c \in Clients, r \in CommentRequests, id \in DOMAIN posts :
        ( /\ CommentForm(r.method, r.comment)
          /\ session[c] = Anonymous
          /\ show_post(c, r.method, id, r.comment) )
        => /\ comments' = comments
           /\ resp'.status = 302
           /\ resp'.location = "login"

\* C5: a valid comment submission on an existing post without a session
\* identity leaves the comment table unchanged and redirects to login; a
\* Comment row appears only by a valid submission of an authenticated caller
\* on an existing post, linked to that caller and that post.
C5_CommentNeedsLogin ==
    [][/\ resp'.op = "show_post" => AnonymousComment
       /\ Len(comments') > Len(comments)
            => /\ resp'.op = "show_post"
               /\ \E c \in Clients, r \in CommentRequests, id \in DOMAIN posts :
                    /\ CommentForm(r.method, r.comment)
                    /\ session[c] # Anonymous
                    /\ show_post(c, r.method, id, r.comment)
                    /\ comments' = Append(comments,
                           [commenter_id |-> session[c], post_id |-> id,
                            text |-> r.comment])]_vars

C5_Witness ==
    /\ resp.op = "show_post"
    /\ resp.status = 302
    /\ resp.location = "login"
    /\ session["b1"] = Anonymous

UniqueTitles ==
    \A i, j \in DOMAIN posts : posts[i].title = posts[j].title => i = j

\* another Post row than row id has this title
TitleOfOther(id, title) ==
    \E j \in DOMAIN posts : j # id /\ posts[j].title = title

CreateWithUsedTitle ==
    \A r \in PostRequests :
      TitleOfOther(0, r.title)
      => \A c \in Clients, d \in Days :
           add_post(c, r.method, r.title, r.subtitle, r.img_url, r.body, d)
           => posts' = posts

EditWithUsedTitle ==
    \A r \in PostRequests, id \in DOMAIN posts :
      TitleOfOther(id, r.title)
      => \A c \in Clients :
           edit_post(c, r.method, id, r.title, r.subtitle, r.img_url, r.body)
           => posts' = posts

\* C8: no two Post rows have the same title, and a create or edit whose
\* title is that of another Post leaves the post table unchanged.
C8_UniqueTitle ==
    [][/\ UniqueTitles'
       /\ resp'.op = "add_post" => CreateWithUsedTitle
       /\ resp'.op = "edit_post" => EditWithUsedTitle]_vars

C8_Witness ==
    /\ resp.op \in {"add_post", "edit_post"}
    /\ resp.status = 500
    /\ posts # <<>>

\* C9: after a successful edit the post has author_id 1 (the session
\* identity), the submitted title, subtitle, image URL and body, its old id
\* and date, and every other row of the three tables is unchanged.
C9_EditFrame ==
    [][resp'.op = "edit_post" =>
         \A c \in Clients, r \in PostRequests, id \in DOMAIN posts :
           ( /\ session[c] = 1
             /\ r.method = "POST"
             /\ r.title \notin Blank /\ r.subtitle # "" /\ r.body # ""
             /\ r.img_url = Url
             /\ ~TitleOfOther(id, r.title)
             /\ edit_post(c, r.method, id, r.title, r.subtitle, r.img_url, r.body) )
           => /\ DOMAIN posts' = DOMAIN posts
              /\ posts'[id].author_id = 1
              /\ posts'[id].author_id = session[c]
              /\ posts'[id].title = r.title
              /\ posts'[id].subtitle = r.subtitle
              /\ posts'[id].img_url = r.img_url
              /\ posts'[id].body = r.body
              /\ posts'[id].date = posts[id].date
              /\ \A j \in DOMAIN posts \ {id} : posts'[j] = posts[j]
              /\ users' = users
              /\ comments' = comments
              /\ resp'.status = 302
              /\ resp'.location = "show_post"]_vars

C9_Witness ==
    /\ resp.op = "edit_post"
    /\ resp.status = 302
    /\ \E id \in DOMAIN posts : posts[id].author_id = 1

UniqueEmails ==
    \A i, j \in DOMAIN users : users[i].email = users[j].email => i = j

\* C10: of two interleaved register requests with the same unused email, at
\* most one User row with that email exists, and the request that reaches its
\* INSERT second is rejected as a duplicate email and redirected to login,
\* without a session and without an unhandled error.
C10_RegisterRace ==
    [][/\ UniqueEmails'
       /\ \A c \in Clients, s \in Salts :
            (register_insert(c, s) /\ EmailKnown(pending[c].email))
            => /\ session' = session
               /\ resp'.status = 302
               /\ resp'.location = "login"]_vars

====
